---- MODULE Spec2Model ----
(***************************************************************************)
(* doing-jetstream: the JetstreamProcessor Durable Object (upstream        *)
(* WebSocket, cursor and counters, queue producer) and the queue consumer  *)
(* that forwards each queued event to the webhook.                         *)
(*                                                                         *)
(* Granularity.  A handler runs to its next await.  The awaits on Durable  *)
(* Object storage (storage.get, storage.put) hold the object's input gate, *)
(* so no other event of the object is delivered while they are pending:    *)
(* a handler and its storage call form one step.  The await on             *)
(* JETSTREAM_QUEUE.send is not a storage call: other events of the object  *)
(* (messages, socket events, timers, RPC calls) run while it is pending,   *)
(* so processEvent is two steps, before and after the send.                *)
(***************************************************************************)
EXTENDS Integers, Sequences, FiniteSets, TLC

\* ------------------------------------------------------------- bounds
MaxSockets == 2
MaxTimers == 2
NumTimes == 2
MaxEvents == 2
MaxInflight == 2
NumTasks == 2
MaxFails == 3

\* ------------------------------------------------- program constants
CursorBuffer == 5000000
FlushEvery == 100
max_retries == 3
max_batch_size == 10
baseDelay == 1000
maxDelay == 30000

\* `this.websocket = null`, `this.reconnectTimeout = null`
NoSocket == 0
NoTimer == 0

SocketIds == 1..MaxSockets
TimerIds == 1..MaxTimers

\* Collections the subscription asks for; "" stands for a commit whose
\* `commit?.collection` is falsy (no commit body, or no collection).
Collections == {"work.doing.task", "blue.2048.game"}
NoCollection == ""
Kinds == {"commit", "identity", "account"}

\* time_us values: microsecond timestamps above the 5 s buffer.
TimeVals == {CursorBuffer + i : i \in 1..NumTimes}

\* JetstreamEvent, as far as the program reads it.
Events ==
    {[time_us |-> t, kind |-> "commit", collection |-> c] :
        t \in TimeVals, c \in Collections \cup {NoCollection}}
    \cup
    {[time_us |-> t, kind |-> k, collection |-> NoCollection] :
        t \in TimeVals, k \in Kinds \ {"commit"}}

VARIABLES
    initDone,          \* initializeProcessor has run past storage.get
    websocket,         \* this.websocket: NoSocket or a socket id
    reconnectTimeout,  \* this.reconnectTimeout: NoTimer or a timer id
    stats,             \* this.stats
    store,             \* ctx.storage "stats": <<>> (absent) or <<record>>
    sockState,         \* every WebSocket created: its readyState
    sockCursor,        \* the cursor parameter of the URL each was opened with
    timers,            \* setTimeout timers armed and not yet fired or cleared
    inflight,          \* QueueMessages whose JETSTREAM_QUEUE.send is pending
    queue,             \* messages the queue accepted, in order
    clock,             \* events processed so far: the model's Date.now()
    tasks,             \* the queue's delivery state of each accepted message
    batch,             \* the messages of the queue() invocation in progress
    decodeErr,         \* sockets on which a message failed to decode
    recovered,         \* of those, the ones that processed an event since
    gLast, gMax, gMono,         \* history: last / largest time_us, order kept
    gRecv, gCommits, gColl, gBare, \* history: what was passed to processEvent
    reply,             \* what getStats returned last: <<>> or <<record>>
    gSinceWrite,       \* history: events processed since the last storage.put
    gDue,              \* history: pending sends of the commits that brought
                       \* totalEvents to a multiple of FlushEvery
    gFailed,           \* history: the messages whose send was rejected
    gPutFailed,        \* history: the messages whose flush write was rejected
    delays             \* the reconnect delays computed since a socket last
                       \* opened, one per failed attempt

producerVars ==
    <<initDone, websocket, reconnectTimeout, stats, store, sockState,
      sockCursor, timers, inflight, queue, clock>>
consumerVars == <<tasks, batch>>
ghostVars == <<gLast, gMax, gMono, gRecv, gCommits, gColl, gBare>>
decodeVars == <<decodeErr, recovered>>
auditVars == <<reply, gSinceWrite, gDue, gFailed>>
restVars == <<gPutFailed, delays>>

vars ==
    <<producerVars, consumerVars, ghostVars, decodeVars, auditVars, restVars>>

Max(a, b) == IF a >= b THEN a ELSE b
Min(a, b) == IF a <= b THEN a ELSE b

RECURSIVE SumOver(_, _)
SumOver(f, S) ==
    IF S = {} THEN 0
    ELSE LET x == CHOOSE y \in S : TRUE IN f[x] + SumOver(f, S \ {x})

\* ------------------------------------------------------------- stats
\* The field initialiser of `stats`, lines 21-27.
InitialStats ==
    [cursor |-> 0,
     eventCounts |-> [c \in Collections |-> 0],
     totalEvents |-> 0,
     totalReceived |-> 0,
     lastEventTime |-> 0]

\* Mutant: the reset keeps the cursor.
ZeroStatsKeepCursor(now) ==
    [cursor |-> stats.cursor,
     eventCounts |-> [c \in Collections |-> 0],
     totalEvents |-> 0,
     totalReceived |-> 0,
     lastEventTime |-> now]

\* The record resetStats builds, lines 183-189.
ZeroStats(now) ==
    [cursor |-> 0,
     eventCounts |-> [c \in Collections |-> 0],
     totalEvents |-> 0,
     totalReceived |-> 0,
     lastEventTime |-> now]

\* Mutant: the cursor only ever moves forward.
NextCursorMax(cursor, e) == Max(cursor, e.time_us)

\* processEvent, line 128: the cursor after an event.
NextCursor(cursor, e) == e.time_us

\* Mutant: the kind is not looked at.
IsCommitAny(e) == TRUE

\* processEvent, line 132.
IsCommit(e) == e.kind = "commit"

\* processEvent, line 141: `if (event.commit?.collection)`.
HasCollection(e) == e.collection # NoCollection

\* Mutant: the count is set, not incremented.
BumpCountsOverwrite(counts, e) ==
    IF e.collection # NoCollection
    THEN [counts EXCEPT ![e.collection] = 1]
    ELSE counts

\* processEvent, lines 141-145.
BumpCounts(counts, e) ==
    IF HasCollection(e)
    THEN [counts EXCEPT ![e.collection] = counts[e.collection] + 1]
    ELSE counts

\* Mutant: an event older than the cursor is dropped as a duplicate.
ApplyEventSkipsReplay(st, e, now) ==
    IF e.time_us < st.cursor THEN st
    ELSE LET st1 == [st EXCEPT !.cursor = NextCursor(st.cursor, e),
                               !.totalReceived = st.totalReceived + 1]
         IN IF ~IsCommit(e) THEN st1
            ELSE [st1 EXCEPT !.totalEvents = st1.totalEvents + 1,
                             !.lastEventTime = now,
                             !.eventCounts = BumpCounts(st1.eventCounts, e)]

\* Mutant: lastEventTime is stamped for every event.
ApplyEventStampsAll(st, e, now) ==
    LET st1 == [st EXCEPT !.cursor = NextCursor(st.cursor, e),
                          !.totalReceived = st.totalReceived + 1,
                          !.lastEventTime = now]
    IN IF ~IsCommit(e) THEN st1
       ELSE [st1 EXCEPT !.totalEvents = st1.totalEvents + 1,
                        !.eventCounts = BumpCounts(st1.eventCounts, e)]

\* processEvent up to the queue send: lines 128-145.
ApplyEvent(st, e, now) ==
    LET st1 == [st EXCEPT !.cursor = NextCursor(st.cursor, e),
                          !.totalReceived = st.totalReceived + 1]
    IN IF ~IsCommit(e) THEN st1
       ELSE [st1 EXCEPT !.totalEvents = st1.totalEvents + 1,
                        !.lastEventTime = now,
                        !.eventCounts = BumpCounts(st1.eventCounts, e)]

\* Mutant: the message is built as a retry.
QueueMessageAsRetry(e, now) == [event |-> e, queuedAt |-> now, retryCount |-> 1]

\* processEvent, lines 149-153.
QueueMessage(e, now) == [event |-> e, queuedAt |-> now, retryCount |-> 0]

\* Mutant: the record is written after every commit.
FlushDueAlways(st) == TRUE

\* processEvent, line 165.
FlushDue(st) == st.totalEvents % FlushEvery = 0

\* ------------------------------------------------------- connection
\* Mutant: the buffer is added.
CursorParamAddsBuffer(cursor) ==
    IF cursor > 0 THEN <<cursor + CursorBuffer>> ELSE <<>>

\* Mutant: the buffer is not subtracted.
CursorParamNoBuffer(cursor) == IF cursor > 0 THEN <<cursor>> ELSE <<>>

\* connectToJetstream, lines 63-67: the cursor query parameter, <<>> if none.
CursorParam(cursor) ==
    IF cursor > 0 THEN <<cursor - CursorBuffer>> ELSE <<>>

Live(s) == sockState[s] \in {"connecting", "open"}

\* A socket id no WebSocket object uses (never created, or closed for good).
FreeSockets(ss, ws) == {s \in SocketIds : ss[s] = "closed" /\ s # ws}
NewSocket(ss, ws) == CHOOSE s \in FreeSockets(ss, ws) :
                        \A r \in FreeSockets(ss, ws) : s <= r

FreeTimers(tm) == TimerIds \ tm
NewTimer(tm) == CHOOSE t \in FreeTimers(tm) : \A r \in FreeTimers(tm) : t <= r

\* Mutant: a timer is armed whether or not one is pending.
ScheduleReconnectAlwaysArms(rt, tm) ==
    IF FreeTimers(tm) = {} THEN [rt |-> rt, tm |-> tm]
    ELSE [rt |-> NewTimer(tm), tm |-> tm \cup {NewTimer(tm)}]

\* Mutant: no timer is armed.
ScheduleReconnectArmsNothing(rt, tm) == [rt |-> rt, tm |-> tm]

\* scheduleReconnect, lines 111-124: the handle and the armed timers after it.
ScheduleReconnect(rt, tm) ==
    IF rt # NoTimer THEN [rt |-> rt, tm |-> tm]
    ELSE [rt |-> NewTimer(tm), tm |-> tm \cup {NewTimer(tm)}]

CanSchedule(rt, tm) == rt # NoTimer \/ FreeTimers(tm) # {}

\* connectToJetstream, lines 52-109, called with the fields as the caller
\* left them: either the WebSocket is created and its listeners attached, or
\* the constructor throws and the catch schedules a reconnect.
ConnectToJetstream(ss, ws, rt, tm, st) ==
    \/ /\ FreeSockets(ss, ws) # {}
       /\ sockState' = [ss EXCEPT ![NewSocket(ss, ws)] = "connecting"]
       /\ sockCursor' = [sockCursor EXCEPT
                            ![NewSocket(ss, ws)] = CursorParam(st.cursor)]
       /\ websocket' = NewSocket(ss, ws)
       /\ reconnectTimeout' = rt
       /\ timers' = tm
    \/ /\ CanSchedule(rt, tm)
       /\ sockState' = ss
       /\ sockCursor' = sockCursor
       /\ websocket' = ws
       /\ reconnectTimeout' = ScheduleReconnect(rt, tm).rt
       /\ timers' = ScheduleReconnect(rt, tm).tm

\* Mutant: the connection is started without the stored record.
InitializeSkipsLoad ==
    /\ ~initDone
    /\ initDone' = TRUE
    /\ stats' = stats
    /\ ConnectToJetstream(sockState, websocket, reconnectTimeout, timers, stats')
    /\ UNCHANGED <<store, inflight, queue, clock, consumerVars, ghostVars,
                   decodeVars, auditVars, restVars>>

\* initializeProcessor, lines 41-50.
Initialize ==
    /\ ~initDone
    /\ initDone' = TRUE
    /\ stats' = IF store # <<>> THEN store[1] ELSE stats
    /\ ConnectToJetstream(sockState, websocket, reconnectTimeout, timers, stats')
    /\ UNCHANGED <<store, inflight, queue, clock, consumerVars, ghostVars,
                   decodeVars, auditVars,
                   restVars>>

\* "open" listener, lines 73-80.
SocketOpen(s) ==
    /\ sockState[s] = "connecting"
    /\ sockState' = [sockState EXCEPT ![s] = "open"]
    /\ IF reconnectTimeout # NoTimer
       THEN /\ timers' = timers \ {reconnectTimeout}
            /\ reconnectTimeout' = NoTimer
       ELSE UNCHANGED <<timers, reconnectTimeout>>
    /\ UNCHANGED <<initDone, websocket, stats, store, sockCursor, inflight,
                   queue, clock, consumerVars, ghostVars, decodeVars,
                   auditVars,
                   restVars>>

\* "close" listener, lines 93-97.
SocketClose(s) ==
    /\ sockState[s] \in {"connecting", "open", "closing", "errored"}
    /\ CanSchedule(reconnectTimeout, timers)
    /\ sockState' = [sockState EXCEPT ![s] = "closed"]
    /\ websocket' = NoSocket
    /\ reconnectTimeout' = ScheduleReconnect(reconnectTimeout, timers).rt
    /\ timers' = ScheduleReconnect(reconnectTimeout, timers).tm
    /\ decodeErr' = decodeErr \ {s}
    /\ recovered' = recovered \ {s}
    /\ UNCHANGED <<initDone, stats, store, sockCursor, inflight, queue, clock,
                   consumerVars, ghostVars, auditVars,
                   restVars>>

\* "error" listener, lines 99-103; the socket's close event follows.
SocketError(s) ==
    /\ sockState[s] \in {"connecting", "open"}
    /\ CanSchedule(reconnectTimeout, timers)
    /\ sockState' = [sockState EXCEPT ![s] = "errored"]
    /\ websocket' = NoSocket
    /\ reconnectTimeout' = ScheduleReconnect(reconnectTimeout, timers).rt
    /\ timers' = ScheduleReconnect(reconnectTimeout, timers).tm
    /\ UNCHANGED <<initDone, stats, store, sockCursor, inflight, queue, clock,
                   consumerVars, ghostVars, decodeVars, auditVars,
                   restVars>>

\* The timer callback of scheduleReconnect, lines 120-123.
TimerFire(t) ==
    /\ t \in timers
    /\ ConnectToJetstream(sockState, websocket, NoTimer, timers \ {t}, stats)
    /\ UNCHANGED <<initDone, stats, store, inflight, queue, clock,
                   consumerVars, ghostVars, decodeVars, auditVars,
                   restVars>>

\* WebSocket.close(), line 208: a connecting or open socket starts closing.
CloseSocket(ss, ws) ==
    IF ws # NoSocket /\ ss[ws] \in {"connecting", "open"}
    THEN [ss EXCEPT ![ws] = "closing"]
    ELSE ss

\* Mutant: the handle is dropped, the timer stays armed.
ClearTimerKeepsTimer(rt, tm) == tm

\* clearTimeout(this.reconnectTimeout), lines 210-213.
ClearTimer(rt, tm) == IF rt # NoTimer THEN tm \ {rt} ELSE tm

\* forceReconnect, lines 206-215.
ForceReconnect ==
    /\ initDone
    /\ ConnectToJetstream(CloseSocket(sockState, websocket), websocket, NoTimer,
                          ClearTimer(reconnectTimeout, timers), stats)
    /\ UNCHANGED <<initDone, stats, store, inflight, queue, clock,
                   consumerVars, ghostVars, decodeVars, auditVars,
                   restVars>>

\* Mutant: no catch; a message that fails to decode tears the socket down.
MessageMalformedCloses(s) ==
    /\ sockState[s] = "open"
    /\ decodeErr' = decodeErr \cup {s}
    /\ sockState' = [sockState EXCEPT ![s] = "closing"]
    /\ UNCHANGED <<initDone, websocket, reconnectTimeout, stats, store,
                   sockCursor, timers, inflight, queue, clock, consumerVars,
                   ghostVars, recovered, auditVars,
                   restVars>>

\* ----------------------------------------------------------- messages
\* "message" listener, lines 82-91, on a message JSON.parse rejects: the
\* catch logs and the listener returns.
MessageMalformed(s) ==
    /\ sockState[s] = "open"
    /\ decodeErr' = decodeErr \cup {s}
    /\ UNCHANGED <<producerVars, consumerVars, ghostVars, recovered,
                   auditVars,
                   restVars>>

\* The history of what processEvent was given, kept beside the program.
Record(e) ==
    /\ gLast' = e.time_us
    /\ gMax' = Max(gMax, e.time_us)
    /\ gMono' = (gMono /\ e.time_us >= gMax)
    /\ gRecv' = gRecv + 1
    /\ gCommits' = IF e.kind = "commit" THEN gCommits + 1 ELSE gCommits
    /\ gColl' = IF e.kind = "commit" /\ e.collection \in Collections
                THEN [gColl EXCEPT ![e.collection] = gColl[e.collection] + 1]
                ELSE gColl
    /\ gBare' = IF e.kind = "commit" /\ e.collection \notin Collections
                THEN gBare + 1 ELSE gBare

\* "message" listener and processEvent up to `await JETSTREAM_QUEUE.send`,
\* lines 82-87 and 126-155; a non-commit event returns at line 133.
MessageEvent(s, e) ==
    /\ sockState[s] = "open"
    /\ clock < MaxEvents
    /\ IsCommit(e) => Cardinality(inflight) < MaxInflight
    /\ clock' = clock + 1
    /\ stats' = ApplyEvent(stats, e, clock')
    /\ inflight' = IF IsCommit(e)
                   THEN inflight \cup {QueueMessage(e, clock')}
                   ELSE inflight
    /\ Record(e)
    /\ recovered' = recovered \cup ({s} \cap decodeErr)
    /\ gSinceWrite' = gSinceWrite + 1
    /\ gDue' = IF e.kind = "commit" /\ stats'.totalEvents % FlushEvery = 0
               THEN gDue \cup {QueueMessage(e, clock')}
               ELSE gDue
    /\ UNCHANGED <<initDone, websocket, reconnectTimeout, store, sockState,
                   sockCursor, timers, queue, consumerVars, decodeErr, reply,
                   gFailed,
                   restVars>>

\* `await this.ctx.storage.put('stats', record)`, lines 166, 175 and 190.
Put(record) ==
    /\ store' = <<record>>
    /\ gSinceWrite' = 0

\* processEvent after the send, lines 164-167.
Flush ==
    IF FlushDue(stats) THEN Put(stats) ELSE UNCHANGED <<store, gSinceWrite>>

\* A message the queue has accepted and not yet delivered.
NewTask ==
    [state |-> "queued", attempts |-> 0, call |-> "none", hist |-> <<>>,
     acks |-> 0, retries |-> 0]

\* The send resolved: lines 155-157, then 164-167.
SendResolved(m) ==
    /\ m \in inflight
    /\ inflight' = inflight \ {m}
    /\ queue' = Append(queue, m)
    /\ tasks' = Append(tasks, NewTask)
    /\ Flush
    /\ gDue' = gDue \ {m}
    /\ UNCHANGED <<initDone, websocket, reconnectTimeout, stats, sockState,
                   sockCursor, timers, clock, batch, ghostVars, decodeVars,
                   reply, gFailed,
                   restVars>>

\* Mutant: the catch sends the message again.
SendRejectedSendsAgain(m) ==
    /\ m \in inflight
    /\ inflight' = inflight
    /\ Flush
    /\ gDue' = gDue
    /\ gFailed' = gFailed \cup {m}
    /\ UNCHANGED <<initDone, websocket, reconnectTimeout, stats, sockState,
                   sockCursor, timers, queue, clock, consumerVars, ghostVars,
                   decodeVars, reply,
                   restVars>>

\* The send rejected: the catch of lines 158-162, then lines 164-167.
SendRejected(m) ==
    /\ m \in inflight
    /\ inflight' = inflight \ {m}
    /\ Flush
    /\ gDue' = gDue \ {m}
    /\ gFailed' = gFailed \cup {m}
    /\ UNCHANGED <<initDone, websocket, reconnectTimeout, stats, sockState,
                   sockCursor, timers, queue, clock, consumerVars, ghostVars,
                   decodeVars, reply,
                   restVars>>

\* Mutant: the rejected write is issued again at once and goes through.
SendResolvedPutFailsWritesAgain(m) ==
    /\ m \in inflight
    /\ FlushDue(stats)
    /\ inflight' = inflight \ {m}
    /\ queue' = Append(queue, m)
    /\ tasks' = Append(tasks, NewTask)
    /\ Put(stats)
    /\ gDue' = gDue \ {m}
    /\ gPutFailed' = gPutFailed \cup {m}
    /\ UNCHANGED <<initDone, websocket, reconnectTimeout, stats, sockState,
                   sockCursor, timers, clock, batch, ghostVars, decodeVars,
                   reply, gFailed, delays>>

\* The send resolved and the flush is due, but storage.put rejects: lines
\* 155-157 and 165-166; the rejection leaves processEvent and is caught and
\* logged by the message listener, lines 88-90.
SendResolvedPutFails(m) ==
    /\ m \in inflight
    /\ FlushDue(stats)
    /\ inflight' = inflight \ {m}
    /\ queue' = Append(queue, m)
    /\ tasks' = Append(tasks, NewTask)
    /\ gDue' = gDue \ {m}
    /\ gPutFailed' = gPutFailed \cup {m}
    /\ UNCHANGED <<initDone, websocket, reconnectTimeout, stats, store,
                   sockState, sockCursor, timers, clock, batch, ghostVars,
                   decodeVars, reply, gSinceWrite, gFailed, delays>>

\* The send rejected (lines 158-162) and the flush is due, but storage.put
\* rejects too: lines 165-166, caught by the message listener, lines 88-90.
SendRejectedPutFails(m) ==
    /\ m \in inflight
    /\ FlushDue(stats)
    /\ inflight' = inflight \ {m}
    /\ gDue' = gDue \ {m}
    /\ gFailed' = gFailed \cup {m}
    /\ gPutFailed' = gPutFailed \cup {m}
    /\ UNCHANGED <<initDone, websocket, reconnectTimeout, stats, store,
                   sockState, sockCursor, timers, queue, clock, consumerVars,
                   ghostVars, decodeVars, reply, gSinceWrite, delays>>

\* ---------------------------------------------------------------- RPC
\* Mutant: the record is returned without being written.
GetStatsNoWrite ==
    /\ initDone
    /\ reply' = <<stats>>
    /\ UNCHANGED <<initDone, websocket, reconnectTimeout, stats, store,
                   sockState, sockCursor, timers, inflight, queue, clock,
                   consumerVars, ghostVars, decodeVars, gSinceWrite, gDue,
                   gFailed,
                   restVars>>

\* getStats, lines 173-177: the put, then `return this.stats`.
GetStats ==
    /\ initDone
    /\ Put(stats)
    /\ reply' = <<stats>>
    /\ UNCHANGED <<initDone, websocket, reconnectTimeout, stats, sockState,
                   sockCursor, timers, inflight, queue, clock, consumerVars,
                   ghostVars, decodeVars, gDue, gFailed,
                   restVars>>

\* resetStats, lines 182-191.
ResetStats ==
    /\ initDone
    /\ stats' = ZeroStats(clock)
    /\ Put(stats')
    /\ gLast' = 0 /\ gMax' = 0 /\ gMono' = TRUE
    /\ gRecv' = 0 /\ gCommits' = 0 /\ gBare' = 0
    /\ gColl' = [c \in Collections |-> 0]
    /\ UNCHANGED <<initDone, websocket, reconnectTimeout, sockState,
                   sockCursor, timers, inflight, queue, clock, consumerVars,
                   decodeVars, reply, gDue, gFailed,
                   restVars>>

\* getConnectionStatus, lines 196-201.
Connected == websocket # NoSocket /\ sockState[websocket] = "open"

\* ------------------------------------------------------ queue consumer
\* What one webhook call comes to: <<status>> for an HTTP response, <<>>
\* when fetch rejects (a transport error).
Statuses == {200, 204, 500}
Outcomes == {<<>>} \cup {<<st>> : st \in Statuses}

\* Mutant: no upper limit on the status.
ResponseOkNoUpper(status) == status >= 200

\* `response.ok`, line 429.
ResponseOk(status) == status >= 200 /\ status <= 299

\* Mutant: the response status is not looked at.
SendToWebhookIgnoresStatus(o) == o = <<>>

\* sendToWebhook, lines 417-433: whether the call throws.
SendToWebhookThrows(o) == o = <<>> \/ ~ResponseOk(o[1])

\* The map callback of queue(), lines 393-410: what it calls on the message.
HandlerCall(o) == IF SendToWebhookThrows(o) THEN "retry" ELSE "ack"

\* Mutant: max_retries read as the number of delivery attempts.
DispositionCountsAttempts(call, attempts) ==
    IF call = "ack" THEN "done"
    ELSE IF attempts < max_retries THEN "queued"
    ELSE "dlq"

\* Mutant: no dead-letter queue; a message out of retries is discarded.
DispositionDiscards(call, attempts) ==
    IF call = "ack" THEN "done"
    ELSE IF attempts <= max_retries THEN "queued"
    ELSE "discarded"

\* The consumer configuration, lines 467-475: an acknowledged message is
\* removed; a retried one is delivered again while it has been retried fewer
\* than max_retries times, and goes to the dead-letter queue after that.
Disposition(call, attempts) ==
    IF call = "ack" THEN "done"
    ELSE IF attempts <= max_retries THEN "queued"
    ELSE "dlq"

Queued == {t \in DOMAIN tasks : tasks[t].state = "queued"}

\* queue(), lines 389-393: the queue hands over a batch and the handler
\* starts one webhook call per message.
DeliverBatch(B) ==
    /\ batch = {}
    /\ B # {}
    /\ B \subseteq Queued
    /\ Cardinality(B) <= max_batch_size
    /\ batch' = B
    /\ tasks' = [t \in DOMAIN tasks |->
                    IF t \in B
                    THEN [tasks[t] EXCEPT !.state = "delivered",
                                          !.attempts = @ + 1,
                                          !.call = "none"]
                    ELSE tasks[t]]
    /\ UNCHANGED <<producerVars, ghostVars, decodeVars, auditVars,
                   restVars>>

\* One message's webhook call returns or fails: lines 394-409.
WebhookReturns(t, o) ==
    /\ t \in batch
    /\ tasks[t].call = "none"
    /\ tasks' = [tasks EXCEPT
                    ![t].call = HandlerCall(o),
                    ![t].hist = Append(@, o),
                    ![t].acks = IF HandlerCall(o) = "ack" THEN @ + 1 ELSE @,
                    ![t].retries = IF HandlerCall(o) = "retry" THEN @ + 1 ELSE @]
    /\ UNCHANGED <<producerVars, batch, ghostVars, decodeVars, auditVars,
                   restVars>>

\* Mutant: one failed call fails the handler, and the whole batch is retried.
BatchSettledAllOrNothing ==
    /\ batch # {}
    /\ \A t \in batch : tasks[t].call # "none"
    /\ batch' = {}
    /\ tasks' = [t \in DOMAIN tasks |->
                    IF t \in batch
                    THEN [tasks[t] EXCEPT
                            !.state = Disposition(
                                IF \E u \in batch : tasks[u].call = "retry"
                                THEN "retry" ELSE "ack",
                                tasks[t].attempts)]
                    ELSE tasks[t]]
    /\ UNCHANGED <<producerVars, ghostVars, decodeVars, auditVars,
                   restVars>>

\* Promise.allSettled, line 413: the handler returns and the queue acts on
\* what was called on each message.
BatchSettled ==
    /\ batch # {}
    /\ \A t \in batch : tasks[t].call # "none"
    /\ batch' = {}
    /\ tasks' = [t \in DOMAIN tasks |->
                    IF t \in batch
                    THEN [tasks[t] EXCEPT
                            !.state = Disposition(tasks[t].call, tasks[t].attempts)]
                    ELSE tasks[t]]
    /\ UNCHANGED <<producerVars, ghostVars, decodeVars, auditVars,
                   restVars>>

\* ------------------------------------------------------ specification
\* The object as constructed on its first start: nothing persisted yet.
Init ==
    /\ initDone = FALSE
    /\ websocket = NoSocket
    /\ reconnectTimeout = NoTimer
    /\ stats = InitialStats
    /\ store = <<>>
    /\ sockState = [s \in SocketIds |-> "closed"]
    /\ sockCursor = [s \in SocketIds |-> <<>>]
    /\ timers = {}
    /\ inflight = {}
    /\ queue = <<>>
    /\ clock = 0
    /\ tasks = <<>>
    /\ batch = {}
    /\ decodeErr = {}
    /\ recovered = {}
    /\ gLast = 0 /\ gMax = 0 /\ gMono = TRUE
    /\ gRecv = 0 /\ gCommits = 0 /\ gBare = 0
    /\ gColl = [c \in Collections |-> 0]
    /\ reply = <<>>
    /\ gSinceWrite = 0
    /\ gDue = {}
    /\ gFailed = {}
    /\ gPutFailed = {}
    /\ delays = <<>>

\* The Durable Object: every listener, timer and RPC method.
Next ==
    \/ Initialize
    \/ \E s \in SocketIds : SocketOpen(s)
    \/ \E s \in SocketIds : SocketClose(s)
    \/ \E s \in SocketIds : SocketError(s)
    \/ \E t \in TimerIds : TimerFire(t)
    \/ ForceReconnect
    \/ \E s \in SocketIds : MessageMalformed(s)
    \/ \E s \in SocketIds, e \in Events : MessageEvent(s, e)
    \/ \E m \in inflight : SendResolved(m)
    \/ \E m \in inflight : SendRejected(m)
    \/ \E m \in inflight : SendResolvedPutFails(m)
    \/ \E m \in inflight : SendRejectedPutFails(m)
    \/ GetStats
    \/ ResetStats

Spec == Init /\ [][Next]_vars

\* The counters and the queue producer on a connection that stays up.
NextStats ==
    \/ Initialize
    \/ \E s \in SocketIds : SocketOpen(s)
    \/ \E t \in TimerIds : TimerFire(t)
    \/ \E s \in SocketIds : MessageMalformed(s)
    \/ \E s \in SocketIds, e \in Events : MessageEvent(s, e)
    \/ \E m \in inflight : SendResolved(m)
    \/ \E m \in inflight : SendRejected(m)
    \/ GetStats
    \/ ResetStats

StatsSpec == Init /\ [][NextStats]_vars

\* The connection life cycle; the feed delivers events that are not commits,
\* which move the cursor and the received count and nothing else.
NextConnect ==
    \/ Initialize
    \/ \E s \in SocketIds : SocketOpen(s)
    \/ \E s \in SocketIds : SocketClose(s)
    \/ \E s \in SocketIds : SocketError(s)
    \/ \E t \in TimerIds : TimerFire(t)
    \/ ForceReconnect
    \/ \E s \in SocketIds, e \in Events : ~IsCommit(e) /\ MessageEvent(s, e)
    \/ ResetStats

ConnectSpec == Init /\ [][NextConnect]_vars

\* The connection life cycle with the constructor's initializeProcessor
\* call carried out, every armed setTimeout timer firing unless cleared, and
\* the close event of a socket that was closed or failed being delivered.
ConnectFairSpec ==
    /\ ConnectSpec
    /\ WF_vars(Initialize)
    /\ WF_vars(\E t \in TimerIds : TimerFire(t))
    /\ WF_vars(\E s \in SocketIds :
                  sockState[s] \in {"closing", "errored"} /\ SocketClose(s))

\* The record after n commits of one collection and nothing else.
StatsAfter(n) ==
    [cursor |-> CursorBuffer + 1,
     eventCounts |-> [c \in Collections |->
                        IF c = "work.doing.task" THEN n ELSE 0],
     totalEvents |-> n,
     totalReceived |-> n,
     lastEventTime |-> 0]

\* The object one commit short of its second flush: FlushEvery commits were
\* counted and flushed, FlushEvery - 1 more were counted since, every send
\* has settled, and the socket is open.
NearFlushInit ==
    /\ initDone = TRUE
    /\ websocket = 1
    /\ reconnectTimeout = NoTimer
    /\ stats = StatsAfter(2 * FlushEvery - 1)
    /\ store = <<StatsAfter(FlushEvery)>>
    /\ sockState = [s \in SocketIds |-> IF s = 1 THEN "open" ELSE "closed"]
    /\ sockCursor = [s \in SocketIds |-> <<>>]
    /\ timers = {}
    /\ inflight = {}
    /\ queue = <<>>
    /\ clock = 0
    /\ tasks = <<>>
    /\ batch = {}
    /\ decodeErr = {}
    /\ recovered = {}
    /\ gLast = CursorBuffer + 1 /\ gMax = CursorBuffer + 1 /\ gMono = TRUE
    /\ gRecv = 2 * FlushEvery - 1 /\ gCommits = 2 * FlushEvery - 1
    /\ gBare = 0
    /\ gColl = StatsAfter(2 * FlushEvery - 1).eventCounts
    /\ reply = <<>>
    /\ gSinceWrite = FlushEvery - 1
    /\ gDue = {}
    /\ gFailed = {}
    /\ gPutFailed = {}
    /\ delays = <<>>

\* processEvent and the RPC methods around a flush.
NextFlush ==
    \/ \E s \in SocketIds, e \in Events : MessageEvent(s, e)
    \/ \E m \in inflight : SendResolved(m)
    \/ \E m \in inflight : SendRejected(m)
    \/ GetStats
    \/ ResetStats

FlushSpec == NearFlushInit /\ [][NextFlush]_vars

\* The same with store writes of the periodic flush that can be rejected.
NextFlushFail ==
    \/ NextFlush
    \/ \E m \in inflight : SendResolvedPutFails(m)
    \/ \E m \in inflight : SendRejectedPutFails(m)

FlushFailSpec == NearFlushInit /\ [][NextFlushFail]_vars

\* The object constructed again after a restart: the fields hold their
\* initialisers, the store holds the record written before the restart.
RestartInit ==
    /\ initDone = FALSE
    /\ websocket = NoSocket
    /\ reconnectTimeout = NoTimer
    /\ stats = InitialStats
    /\ store = <<StatsAfter(FlushEvery)>>
    /\ sockState = [s \in SocketIds |-> "closed"]
    /\ sockCursor = [s \in SocketIds |-> <<>>]
    /\ timers = {}
    /\ inflight = {}
    /\ queue = <<>>
    /\ clock = 0
    /\ tasks = <<>>
    /\ batch = {}
    /\ decodeErr = {}
    /\ recovered = {}
    /\ gLast = CursorBuffer + 1 /\ gMax = CursorBuffer + 1 /\ gMono = TRUE
    /\ gRecv = FlushEvery /\ gCommits = FlushEvery /\ gBare = 0
    /\ gColl = StatsAfter(FlushEvery).eventCounts
    /\ reply = <<>>
    /\ gSinceWrite = 0
    /\ gDue = {}
    /\ gFailed = {}
    /\ gPutFailed = {}
    /\ delays = <<>>

\* The restarted object: its connection life cycle and the RPC methods.
NextRestart ==
    \/ Initialize
    \/ \E s \in SocketIds : SocketOpen(s)
    \/ \E s \in SocketIds : SocketClose(s)
    \/ \E s \in SocketIds : SocketError(s)
    \/ \E t \in TimerIds : TimerFire(t)
    \/ ForceReconnect
    \/ \E s \in SocketIds, e \in Events : ~IsCommit(e) /\ MessageEvent(s, e)
    \/ GetStats

RestartSpec == RestartInit /\ [][NextRestart]_vars

\* Math.pow(2, Math.random()), line 117, in thousandths and rounded down,
\* for Math.random() = 0, 1/4, 1/2, 3/4 and the largest value below 1.
Pow2Random == <<1000, 1189, 1414, 1681, 1999>>

\* scheduleReconnect, lines 115-117: the delay in milliseconds, given which
\* of the values above Math.pow returned.
ReconnectDelay(q) == Min((baseDelay * Pow2Random[q]) \div 1000, maxDelay)

\* A connection attempt failed with no reconnect pending (close or error
\* listener, or the catch of connectToJetstream): scheduleReconnect computes
\* the delay of the timer it arms, lines 114-123.
ReconnectScheduled(q) ==
    /\ Len(delays) < MaxFails
    /\ delays' = Append(delays, ReconnectDelay(q))
    /\ UNCHANGED <<producerVars, consumerVars, ghostVars, decodeVars,
                   auditVars, gPutFailed>>

\* The socket of a reconnect opened, lines 73-80: the run of failed
\* attempts is over.
ReconnectOpened ==
    /\ delays # <<>>
    /\ delays' = <<>>
    /\ UNCHANGED <<producerVars, consumerVars, ghostVars, decodeVars,
                   auditVars, gPutFailed>>

\* The delays scheduleReconnect computes over runs of failed attempts.
NextBackoff ==
    \/ \E q \in DOMAIN Pow2Random : ReconnectScheduled(q)
    \/ ReconnectOpened

BackoffSpec == Init /\ [][NextBackoff]_vars

\* The queue consumer, started on a queue that holds NumTasks messages the
\* producer sent.
QueuedEvent(t) ==
    [time_us |-> CursorBuffer + t, kind |-> "commit",
     collection |-> "work.doing.task"]

QueueInit ==
    /\ initDone = TRUE
    /\ websocket = NoSocket
    /\ reconnectTimeout = NoTimer
    /\ stats = InitialStats
    /\ store = <<>>
    /\ sockState = [s \in SocketIds |-> "closed"]
    /\ sockCursor = [s \in SocketIds |-> <<>>]
    /\ timers = {}
    /\ inflight = {}
    /\ queue = [t \in 1..NumTasks |-> QueueMessage(QueuedEvent(t), t)]
    /\ clock = NumTasks
    /\ tasks = [t \in 1..NumTasks |-> NewTask]
    /\ batch = {}
    /\ decodeErr = {}
    /\ recovered = {}
    /\ gLast = 0 /\ gMax = 0 /\ gMono = TRUE
    /\ gRecv = 0 /\ gCommits = 0 /\ gBare = 0
    /\ gColl = [c \in Collections |-> 0]
    /\ reply = <<>>
    /\ gSinceWrite = 0
    /\ gDue = {}
    /\ gFailed = {}
    /\ gPutFailed = {}
    /\ delays = <<>>

NextQueue ==
    \/ \E B \in SUBSET (DOMAIN tasks) : DeliverBatch(B)
    \/ \E t \in DOMAIN tasks, o \in Outcomes : WebhookReturns(t, o)
    \/ BatchSettled

QueueSpec == QueueInit /\ [][NextQueue]_vars

\* The consumer with a queue that keeps delivering what it holds, webhook
\* calls that each return or fail (fetch settles), and a handler that
\* returns once they all have.
QueueFairSpec ==
    /\ QueueSpec
    /\ WF_vars(\E B \in SUBSET (DOMAIN tasks) : DeliverBatch(B))
    /\ WF_vars(\E t \in DOMAIN tasks, o \in Outcomes : WebhookReturns(t, o))
    /\ WF_vars(BatchSettled)

\* ---------------------------------------------------------------- claims
\* C1 (as stated): after every event, stats.cursor is the largest time_us of
\* all events processed so far, also when time_us is not increasing.
C1_CursorIsMaxSeen == stats.cursor = gMax

\* C1 (amended): after every event, stats.cursor is the time_us of the event
\* processed last; it is the largest time_us processed so far whenever the
\* events came in non-decreasing time_us order.
C1_CursorIsLastSeen ==
    /\ stats.cursor = gLast
    /\ gMono => stats.cursor = gMax

\* A replayed event was processed: the cursor is below the largest time_us.
C1_Witness == gRecv >= 2 /\ ~gMono /\ stats.cursor < gMax

\* C2: at most one upstream WebSocket is connecting or open at any time.
C2_AtMostOneLiveSocket == Cardinality({s \in SocketIds : Live(s)}) <= 1

\* C3: totalReceived is the number of events passed to processEvent since
\* the start or the last reset, totalEvents the number of commits among
\* them, and totalEvents <= totalReceived.
C3_TotalsCountEvents ==
    /\ stats.totalReceived = gRecv
    /\ stats.totalEvents = gCommits
    /\ stats.totalEvents <= stats.totalReceived

C3_Witness == gRecv >= 2 /\ gCommits >= 1 /\ gCommits < gRecv

\* C4: eventCounts[c] is the number of commits of collection c since the
\* start or the last reset, and the counts sum to totalEvents whenever every
\* commit carried a collection.
C4_CountsPerCollection ==
    /\ \A c \in Collections : stats.eventCounts[c] = gColl[c]
    /\ gBare = 0 => SumOver(stats.eventCounts, Collections) = stats.totalEvents

C4_Witness ==
    /\ gBare = 0
    /\ \E c \in Collections : gColl[c] >= 2
    /\ stats.totalEvents >= 2

\* C5: every connect request carries cursor = stats.cursor - 5,000,000 when
\* stats.cursor > 0 as it is built, and no cursor when stats.cursor = 0.
C5_ConnectCarriesCursor ==
    [][\A s \in SocketIds :
          (sockState[s] = "closed" /\ sockState'[s] = "connecting") =>
              sockCursor'[s] = IF stats'.cursor > 0
                               THEN <<stats'.cursor - CursorBuffer>>
                               ELSE <<>>]_vars

\* A socket was opened with a cursor parameter.
C5_Witness ==
    \E s \in SocketIds :
        /\ sockState[s] = "connecting"
        /\ stats.cursor > 0
        /\ sockCursor[s] = <<stats.cursor - CursorBuffer>>

Zeroed(r) ==
    /\ r.cursor = 0
    /\ r.totalEvents = 0
    /\ r.totalReceived = 0
    /\ \A c \in Collections : r.eventCounts[c] = 0

\* C6: resetStats leaves the in-memory and the persisted record with cursor,
\* totalEvents, totalReceived at 0 and no eventCounts, whatever the state
\* before; applied to the state a reset left, it changes nothing.
C6_ResetZeroesBoth ==
    [][ResetStats =>
          /\ Zeroed(stats')
          /\ store' = <<stats'>>
          /\ (Zeroed(stats) /\ store = <<stats>>) =>
                 /\ stats'.cursor = stats.cursor
                 /\ stats'.totalEvents = stats.totalEvents
                 /\ stats'.totalReceived = stats.totalReceived
                 /\ stats'.eventCounts = stats.eventCounts
                 /\ Zeroed(store'[1])]_vars

\* Events were processed and a reset zeroed both records.
C6_Witness == clock >= 2 /\ Zeroed(stats) /\ store = <<stats>>

\* C7: a message that fails to decode changes no counter, enqueues nothing,
\* leaves the socket, the handle and the reconnect timer as they were, and
\* the next valid message on that socket is processed as any other.
C7_DecodeFailureIsContained ==
    [][/\ (\E s \in SocketIds : s \notin decodeErr /\ s \in decodeErr') =>
             UNCHANGED <<stats, store, inflight, queue, tasks, sockState,
                         websocket, reconnectTimeout, timers>>
       /\ (\E s \in SocketIds : s \notin recovered /\ s \in recovered') =>
             /\ gRecv' = gRecv + 1
             /\ stats'.totalReceived = stats.totalReceived + 1
             /\ stats'.cursor = gLast']_vars

\* A socket processed a commit after one of its messages failed to decode.
C7_Witness ==
    \E s \in recovered : sockState[s] = "open" /\ stats.totalEvents >= 1

Is2xx(o) == o # <<>> /\ o[1] \in 200..299

RECURSIVE Count2xx(_)
Count2xx(h) ==
    IF h = <<>> THEN 0
    ELSE (IF Is2xx(h[1]) THEN 1 ELSE 0) + Count2xx(Tail(h))

AllFailed(h) == \A i \in 1..Len(h) : ~Is2xx(h[i])

\* C8: a message is acknowledged only on a 2xx response and retried on any
\* other response or transport error, and every delivery attempt ends in
\* exactly one of ack and retry.
C8_AckOnlyOn2xx ==
    \A t \in DOMAIN tasks :
        LET k == tasks[t] IN
        /\ k.acks + k.retries = Len(k.hist)
        /\ k.acks = Count2xx(k.hist)
        /\ k.attempts = Len(k.hist) + (IF k.call = "none" /\ k.state = "delivered"
                                       THEN 1 ELSE 0)
        /\ k.call = "ack" => Is2xx(k.hist[Len(k.hist)])
        /\ k.call = "retry" => ~Is2xx(k.hist[Len(k.hist)])

C8_Witness ==
    \E t \in DOMAIN tasks : tasks[t].acks >= 1 /\ tasks[t].retries >= 2

\* C9: a message whose webhook call returns 500 on attempt 1 and 200 on
\* attempt 2 is retried after attempt 1, acknowledged once, on attempt 2,
\* never delivered again and never dead-lettered.
C9_RetryThenAck ==
    \A t \in DOMAIN tasks :
        LET k == tasks[t] IN
        /\ (Len(k.hist) = 1 /\ k.hist[1] = <<500>>) =>
              /\ k.acks = 0
              /\ k.state \in {"delivered", "queued"}
        /\ (Len(k.hist) >= 2 /\ k.hist[1] = <<500>> /\ k.hist[2] = <<200>>) =>
              /\ Len(k.hist) = 2
              /\ k.attempts = 2
              /\ k.acks = 1
              /\ k.state \in {"delivered", "done"}

C9_Witness ==
    \E t \in DOMAIN tasks :
        tasks[t].hist = <<<<500>>, <<200>>>> /\ tasks[t].state = "done"

\* C10 (as stated): a message whose webhook call failed on 3 delivery
\* attempts is dead-lettered after the third and never delivered a fourth
\* time.
C10_DeadLetterAfterThree ==
    \A t \in DOMAIN tasks :
        LET k == tasks[t] IN
        /\ k.attempts <= 3
        /\ (Len(k.hist) >= 3 /\ AllFailed(k.hist)) =>
               k.state \in {"delivered", "dlq"}

\* C10 (amended): max_retries 3 allows 3 retries after the first delivery: a
\* message is dead-lettered after its webhook call failed on all 4 delivery
\* attempts, not earlier, and is never delivered a fifth time.
C10_DeadLetterAfterRetries ==
    \A t \in DOMAIN tasks :
        LET k == tasks[t] IN
        /\ k.attempts <= max_retries + 1
        /\ (Len(k.hist) = max_retries + 1 /\ AllFailed(k.hist)) =>
               k.state \in {"delivered", "dlq"}
        /\ k.state = "dlq" =>
               /\ Len(k.hist) = max_retries + 1
               /\ AllFailed(k.hist)
               /\ t \notin batch

C10_Witness ==
    \E t \in DOMAIN tasks : tasks[t].state = "dlq" /\ tasks[t].attempts = 4

LastOutcome(k) == k.hist[Len(k.hist)]

\* C11: within one batch every message is settled on its own webhook
\* outcome: a call that returns touches no other message, the handler
\* returns once every call has, and then each message that got a 2xx is
\* acknowledged and each other one retried, whatever its siblings did.
C11_TasksSettleIndependently ==
    /\ [](\A t \in batch :
            tasks[t].call # "none" =>
                (tasks[t].call = "ack" <=> Is2xx(LastOutcome(tasks[t]))))
    /\ []((batch # {} /\ \A t \in batch : tasks[t].call # "none") =>
              ENABLED BatchSettled)
    /\ [][/\ \A t \in DOMAIN tasks :
               tasks'[t].hist # tasks[t].hist =>
                   \A u \in DOMAIN tasks \ {t} : tasks'[u] = tasks[u]
          /\ (batch # {} /\ batch' = {}) =>
                 \A t \in batch :
                    /\ Is2xx(LastOutcome(tasks[t])) => tasks'[t].state = "done"
                    /\ ~Is2xx(LastOutcome(tasks[t])) =>
                          tasks'[t].state =
                              IF tasks[t].retries <= max_retries
                              THEN "queued" ELSE "dlq"]_vars

\* One batch holds a message that was acknowledged and one that was retried.
C11_Witness ==
    /\ Cardinality(batch) >= 2
    /\ \E t, u \in batch :
          /\ tasks[t].call = "ack"
          /\ tasks[u].call = "retry"

\* C12: every message the queue accepted is in the end either acknowledged,
\* after a 2xx response, or dead-lettered, after max_retries retries all
\* failed; never both, and none is left or lost on the way.
C12_EveryTaskIsSettled ==
    /\ \A t \in 1..NumTasks : <>(tasks[t].state \in {"done", "dlq"})
    /\ [](\A t \in DOMAIN tasks :
            LET k == tasks[t] IN
            /\ k.state \in {"queued", "delivered", "done", "dlq"}
            /\ k.state = "done" =>
                   /\ k.acks = 1
                   /\ Is2xx(LastOutcome(k))
            /\ k.state = "dlq" =>
                   /\ k.acks = 0
                   /\ k.retries = max_retries + 1)
    /\ [][\A t \in DOMAIN tasks :
              tasks[t].state \in {"done", "dlq"} => tasks'[t] = tasks[t]]_vars

\* One message ended acknowledged and another dead-lettered.
C12_Witness ==
    \E t, u \in DOMAIN tasks :
        /\ tasks[t].state = "done" /\ tasks[t].retries >= 1
        /\ tasks[u].state = "dlq"

\* A call of connectToJetstream: from initializeProcessor, the reconnect
\* timer or forceReconnect.
ConnectAttempt ==
    \/ Initialize
    \/ \E t \in TimerIds : TimerFire(t)
    \/ ForceReconnect

InQueue(m) == \E i \in 1..Len(queue) : queue[i] = m

\* C14: when the send of a commit is rejected, the counters the event moved
\* stay as they are, the message is not sent again, the socket, the handle
\* and the timer are left alone, and the events that follow are counted as
\* any other.
C14_EnqueueFailureIsContained ==
    /\ [](\A m \in gFailed : m \notin inflight /\ ~InQueue(m))
    /\ [][/\ gFailed' # gFailed =>
                /\ stats'.cursor = stats.cursor
                /\ stats'.totalReceived = stats.totalReceived
                /\ stats'.totalEvents = stats.totalEvents
                /\ stats'.eventCounts = stats.eventCounts
                /\ UNCHANGED <<queue, tasks, sockState, websocket,
                               reconnectTimeout, timers>>
          /\ (gFailed # {} /\ gRecv' = gRecv + 1) =>
                /\ stats'.totalReceived = stats.totalReceived + 1
                /\ stats'.cursor = gLast'
                /\ stats'.totalEvents - stats.totalEvents
                       = gCommits' - gCommits]_vars

\* A send was rejected and a later commit was counted and queued on the
\* same open socket.
C14_Witness ==
    \E m \in gFailed :
        /\ stats.totalEvents >= 2
        /\ \E i \in 1..Len(queue) : queue[i].queuedAt > m.queuedAt
        /\ websocket # NoSocket
        /\ sockState[websocket] = "open"

\* C15: the processing of a message does not begin before the processing
\* of the message before it has finished, its awaited queue send and store
\* write included.
C15_OneMessageAtATime ==
    [][gRecv' = gRecv + 1 => inflight = {}]_vars

\* C16: when the processing of a commit brings totalEvents to a multiple
\* of 100, the processing of that commit ends with the whole record
\* written to the store, whatever runs in between.
C16_FlushAtEveryHundredth ==
    [][\A m \in gDue :
          m \notin gDue' => (store' = <<stats'>> /\ gSinceWrite' = 0)]_vars

PersistedTotal == IF store = <<>> THEN 0 ELSE store[1].totalEvents

\* C17: in every state the in-memory totalEvents is at most 99 above the
\* persisted totalEvents.
C17_AtMost99Behind == stats.totalEvents - PersistedTotal <= FlushEvery - 1

\* The same with one more allowed, for the commit whose send is pending.
AtMost100Behind == stats.totalEvents - PersistedTotal <= FlushEvery

C19_GetStatsWritesThenReturns ==
    [][GetStats =>
          /\ reply' # <<>>
          /\ store' = reply'
          /\ reply'[1] = stats'
          /\ stats' = stats
          /\ reply'[1].totalReceived = gRecv'
          /\ reply'[1].totalEvents = gCommits'
          /\ reply'[1].cursor = gLast'
          /\ gSinceWrite' = 0]_vars

\* getStats returned while a commit's send was pending.
C19_Witness ==
    /\ reply # <<>>
    /\ reply = store
    /\ reply[1] = stats
    /\ reply[1].totalEvents >= 1
    /\ inflight # {}

\* C20: getConnectionStatus reports connected exactly when an upstream
\* socket is open.
C20_ConnectedIffOpen ==
    Connected <=> \E s \in SocketIds : sockState[s] = "open"

\* C21: forceReconnect, in any state, closes the socket the handle holds if
\* that socket is connecting or open, leaves no timer armed before the
\* call pending, and calls connectToJetstream at once: on its return the
\* handle holds a new connecting socket and no timer is armed, or the
\* connect threw and the only timer armed is the one its catch scheduled.
C21_ForceReconnectRestarts ==
    [][ForceReconnect =>
          /\ (websocket # NoSocket /\ Live(websocket)) =>
                 sockState'[websocket] = "closing"
          /\ \/ /\ timers' = {}
                /\ reconnectTimeout' = NoTimer
                /\ websocket' # NoSocket
                /\ websocket' # websocket
                /\ sockState[websocket'] = "closed"
                /\ sockState'[websocket'] = "connecting"
             \/ /\ \A s \in SocketIds :
                      sockState'[s] = "connecting" => sockState[s] = "connecting"
                /\ reconnectTimeout' # NoTimer
                /\ timers' = {reconnectTimeout'}]_vars

\* forceReconnect closed the socket it held and a new one is connecting.
C21_Witness ==
    /\ \E s \in SocketIds : sockState[s] = "closing"
    /\ websocket # NoSocket
    /\ sockState[websocket] = "connecting"
    /\ timers = {}
    /\ reconnectTimeout = NoTimer

\* C22: after a restart with a persisted record whose cursor is above 0,
\* that record is loaded before any socket is created or timer armed, also
\* when forceReconnect or getStats is called during initialisation, and
\* every connect request made before an event is processed carries the
\* persisted cursor less 5,000,000, later ones the in-memory cursor less
\* 5,000,000.
C22_RestartResumesFromStore ==
    /\ [](~initDone =>
             /\ \A s \in SocketIds : sockState[s] = "closed"
             /\ timers = {}
             /\ store = <<StatsAfter(FlushEvery)>>)
    /\ []((initDone /\ clock = 0) => stats = store[1])
    /\ [][\A s \in SocketIds :
              (sockState[s] = "closed" /\ sockState'[s] = "connecting") =>
                  /\ initDone'
                  /\ sockCursor'[s] = <<gLast' - CursorBuffer>>
                  /\ clock' = 0 =>
                        sockCursor'[s] = <<store'[1].cursor - CursorBuffer>>]_vars

\* A forceReconnect after the restart: the second socket too was asked for
\* with the persisted cursor.
C22_Witness ==
    /\ initDone
    /\ clock = 0
    /\ \E s \in SocketIds : sockState[s] = "closing"
    /\ websocket # NoSocket
    /\ sockState[websocket] = "connecting"
    /\ sockCursor[websocket] = <<store[1].cursor - CursorBuffer>>
    /\ store[1].cursor > 0

\* C23: when the store write of a periodic flush is rejected, the
\* in-memory record is left as it is, nothing is written by that step, the
\* socket and the timer are left alone, the events that follow are counted
\* as any other, and every later write that goes through, made only when
\* a flush is next due or by getStats or resetStats, stores the record as
\* it is in memory then.
C23_FlushFailureIsContained ==
    [][/\ gPutFailed' # gPutFailed =>
            /\ stats' = stats
            /\ store' = store
            /\ gSinceWrite' = gSinceWrite
            /\ UNCHANGED <<sockState, websocket, reconnectTimeout, timers>>
       /\ (gPutFailed # {} /\ gRecv' = gRecv + 1) =>
            /\ stats'.totalReceived = stats.totalReceived + 1
            /\ stats'.cursor = gLast'
            /\ stats'.totalEvents - stats.totalEvents = gCommits' - gCommits
       /\ (gPutFailed # {} /\ store' # store) =>
            /\ store' = <<stats'>>
            /\ \/ stats'.totalEvents % FlushEvery = 0
               \/ reply' = <<stats'>>]_vars

\* The write for the 200th commit was rejected, a later commit was
\* counted, and a later write stored the record with both.
C23_Witness ==
    \E m \in gPutFailed :
        /\ \E n \in inflight : n.queuedAt > m.queuedAt
        /\ stats.totalEvents = 2 * FlushEvery + 1
        /\ store = <<stats>>

\* C24: scheduleReconnect does nothing while a reconnect is pending: at
\* most one timer is armed in any state, it is the one the handle holds, a
\* close or error that finds it armed leaves it as it is, and a step that
\* creates a socket leaves no timer armed, so no timer leads to a second
\* connect.
C24_OneReconnectPending ==
    /\ [](/\ Cardinality(timers) <= 1
          /\ reconnectTimeout # NoTimer => timers = {reconnectTimeout}
          /\ reconnectTimeout = NoTimer => timers = {})
    /\ [][/\ (/\ reconnectTimeout # NoTimer
              /\ \E s \in SocketIds :
                    /\ sockState[s] # sockState'[s]
                    /\ sockState'[s] \in {"closed", "errored"}) =>
                UNCHANGED <<reconnectTimeout, timers>>
          /\ (\E s \in SocketIds :
                 sockState[s] = "closed" /\ sockState'[s] = "connecting") =>
                (timers' = {} /\ reconnectTimeout' = NoTimer)]_vars

\* Two sockets failed one after the other and one timer is armed.
C24_Witness ==
    /\ \E s, u \in SocketIds :
          /\ u < s
          /\ sockState[s] = "errored"
          /\ sockState[u] = "closed"
    /\ \A s \in SocketIds : ~Live(s)
    /\ reconnectTimeout # NoTimer
    /\ timers = {reconnectTimeout}

\* C25: an event that is not a commit changes stats.cursor and
\* stats.totalReceived and nothing else: totalEvents, eventCounts and
\* lastEventTime stay, nothing is enqueued and nothing is written.
C25_NonCommitTouchesCursorOnly ==
    [][(gRecv' = gRecv + 1 /\ gCommits' = gCommits) =>
          /\ stats' = [stats EXCEPT !.cursor = gLast',
                                    !.totalReceived = stats.totalReceived + 1]
          /\ UNCHANGED <<inflight, queue, tasks, store>>]_vars

\* An identity or account event followed a commit: the cursor moved past
\* the commit, lastEventTime did not.
C25_Witness ==
    /\ gCommits >= 1
    /\ gRecv > gCommits
    /\ stats.lastEventTime < clock
    /\ stats.cursor = gLast

Enqueued == {queue[i] : i \in 1..Len(queue)}
Attempted == inflight \cup Enqueued \cup gFailed

\* C26: every commit processed causes exactly one send, of a message
\* that wraps that event with retryCount 0; no other event and no other
\* step causes a send; and the sends are issued in the order the events
\* arrived, each after all the sends issued before it.
C26_OneSendPerCommitInOrder ==
    /\ [](/\ \A m \in Attempted :
                m.event.kind = "commit" /\ m.retryCount = 0
          /\ \A m, n \in Attempted : m.queuedAt = n.queuedAt => m = n
          /\ inflight \cap Enqueued = {}
          /\ inflight \cap gFailed = {}
          /\ Enqueued \cap gFailed = {}
          /\ Cardinality(Enqueued) = Len(queue))
    /\ [][/\ (gRecv' = gRecv + 1 /\ gCommits' = gCommits + 1) =>
                \E m \in inflight' \ inflight :
                    /\ inflight' = inflight \cup {m}
                    /\ m.event.kind = "commit"
                    /\ m.event.time_us = gLast'
                    /\ m.retryCount = 0
                    /\ \A n \in Attempted : n.queuedAt < m.queuedAt
          /\ ~(gRecv' = gRecv + 1 /\ gCommits' = gCommits + 1) =>
                inflight' \subseteq inflight]_vars

\* Two commits were sent in arrival order and the second send settled
\* first.
C26_Witness ==
    \E m \in inflight, n \in Enqueued :
        /\ m.queuedAt < n.queuedAt
        /\ m.retryCount = 0 /\ n.retryCount = 0

\* C27: the delay scheduled after k failed attempts in a row grows
\* exponentially with k from 1 second: it is at least 1000 * 2^(k-1) ms up
\* to the cap, never below 1000 ms and never above 30000 ms.
C27_DelayGrowsExponentially ==
    \A k \in 1..Len(delays) :
        /\ delays[k] >= baseDelay
        /\ delays[k] <= maxDelay
        /\ delays[k] >= Min(baseDelay * 2^(k - 1), maxDelay)

\* What the code does keep: every delay is from 1000 ms to under 2000 ms.
DelayWithinOneToTwoSeconds ==
    \A k \in 1..Len(delays) :
        delays[k] >= baseDelay /\ delays[k] < 2 * baseDelay

\* C28: within one lifetime, a cursor sent by a connect request is at most
\* the largest time_us processed so far less 5,000,000, and it is the
\* time_us of the event processed last less 5,000,000: no event upstream
\* emitted after the last processed one is before it.
C28_ReconnectCursorNotAhead ==
    [][\A s \in SocketIds :
          (/\ sockState[s] = "closed"
           /\ sockState'[s] = "connecting"
           /\ sockCursor'[s] # <<>>) =>
              /\ sockCursor'[s][1] <= gMax' - CursorBuffer
              /\ sockCursor'[s][1] = gLast' - CursorBuffer
              /\ sockCursor'[s][1] < gLast']_vars

\* A reconnect after a replayed event: the cursor sent is below the
\* largest time_us processed less the buffer.
C28_Witness ==
    \E s \in SocketIds :
        /\ sockState[s] = "connecting"
        /\ sockCursor[s] # <<>>
        /\ gRecv >= 2
        /\ sockCursor[s][1] < gMax - CursorBuffer

\* C29: an event whose time_us is at or below the current cursor (a replay
\* after a reconnect) is processed like any other: totalReceived counts it
\* and the cursor takes its time_us; if it is a commit, totalEvents and its
\* collection's count go up by one and one message wrapping it is sent to
\* the queue again.
C29_ReplayIsProcessed ==
    [][(/\ gRecv' = gRecv + 1
        /\ stats.cursor > 0
        /\ gLast' <= stats.cursor) =>
           /\ stats'.totalReceived = stats.totalReceived + 1
           /\ stats'.cursor = gLast'
           /\ (gCommits' = gCommits + 1) =>
                 /\ stats'.totalEvents = stats.totalEvents + 1
                 /\ \A c \in Collections :
                       stats'.eventCounts[c] = stats.eventCounts[c]
                           + (gColl'[c] - gColl[c])
                 /\ \E c \in Collections : gColl'[c] + gBare' > gColl[c] + gBare
                 /\ \E m \in inflight' \ inflight :
                       /\ m.event.time_us = gLast'
                       /\ m.event.kind = "commit"
                       /\ inflight' = inflight \cup {m}]_vars

\* A commit was sent to the queue, and a later commit with a lower
\* time_us, a replay, was counted and sent as well.
C29_Witness ==
    \E m, n \in Attempted :
        /\ m.queuedAt < n.queuedAt
        /\ n.event.time_us < m.event.time_us
        /\ stats.totalEvents >= 2
        /\ stats.totalReceived = gRecv

\* C30: after forceReconnect replaced a live socket, the close event of
\* the socket it tore down leaves the handle on the new socket and arms no
\* reconnect timer, so no additional socket is opened on its account.
C30_TornDownSocketIsInert ==
    [][\A s \in SocketIds :
          (/\ sockState[s] = "closing"
           /\ sockState'[s] = "closed"
           /\ websocket # NoSocket
           /\ websocket # s
           /\ Live(websocket)) =>
              /\ websocket' = websocket
              /\ timers' = timers
              /\ reconnectTimeout' = reconnectTimeout]_vars

====
